---------------------------- MODULE Spec2Model ----------------------------
(***************************************************************************)
(* docstring-keeper: transform_source_preserve_outside_comments (app.py).  *)
(* Source text is a sequence of characters, each a one-element string.     *)
(* ast.parse is modelled by a recursive-descent parser of a Python subset  *)
(* (def / async def / class headers, simple statements, comments, blank    *)
(* lines, indentation blocks); it reports node positions the way the ast   *)
(* module does: 1-based line numbers and UTF-8 BYTE column offsets.        *)
(***************************************************************************)
EXTENDS Integers, Sequences, FiniteSets, TLC

VARIABLES source, pc, run, tree, line_starts, lines, visit_i, replacements,
          ranges_sorted, scan_i, kept, current_end, todo, new_src, result,
          error, prev_out

vars == <<source, pc, run, tree, line_starts, lines, visit_i, replacements,
          ranges_sorted, scan_i, kept, current_end, todo, new_src, result,
          error, prev_out>>

-----------------------------------------------------------------------------
(* Characters and text                                                     *)

NL == "\n"
QUOTE == "\""
\* One non-ASCII character (e-acute): a single str character, two UTF-8 bytes.
EAcute == "U+00E9"

LowerCase == {"a","b","c","d","e","f","g","h","i","j","k","l","m","n","o",
              "p","q","r","s","t","u","v","w","x","y","z"}
NameStart == LowerCase \cup {"C", "K", "_", EAcute}
Digit == {"0","1","2","3","4","5","6","7","8","9"}
NameChar == NameStart \cup Digit
OpChar == {"(", ")", ":", ",", "=", "+"}

Min(a, b) == IF a < b THEN a ELSE b
Max(a, b) == IF a < b THEN b ELSE a

\* Python slicing text[a:b], text[:b], text[a:] for 0 <= a, b (out-of-range
\* indices are clamped, never an error).
Slice(text, a, b) == SubSeq(text, Min(a, Len(text)) + 1, Min(b, Len(text)))
Take(text, b) == Slice(text, 0, b)
Drop(text, a) == Slice(text, a, Len(text))

EndsWith(text, c) == Len(text) > 0 /\ text[Len(text)] = c

\* Length of one character in UTF-8.
ByteLen(c) == IF c = EAcute THEN 2 ELSE 1

\* UTF-8 byte offset of the (0-based) character index n in a line: what the
\* ast module reports as col_offset / end_col_offset. (The sum of ByteLen
\* over the first n characters, each of which is one or two bytes long.)
ByteCol(line, n) == n + Cardinality({k \in 1..n : ByteLen(line[k]) = 2})

\* line.encode()[b1:b2].decode(): the characters whose bytes lie in [b1, b2).
ByteSlice(line, b1, b2) ==
  LET idx == {n \in 1..Len(line) :
                ByteCol(line, n - 1) >= b1 /\ ByteCol(line, n) <= b2}
  IN  IF idx = {} THEN <<>>
      ELSE SubSeq(line, CHOOSE n \in idx : \A m \in idx : n <= m,
                        CHOOSE n \in idx : \A m \in idx : m <= n)

\* Index of the last character of the line that starts at index i: its
\* newline, or the text's last character.
LineEnd(text, i) ==
  CHOOSE j \in i..Len(text) :
    /\ \A k \in i..(j - 1) : text[k] # NL
    /\ j = Len(text) \/ text[j] = NL

RECURSIVE SplitFrom(_, _)
SplitFrom(text, i) ==
  IF i > Len(text) THEN <<>>
  ELSE CHOOSE r \in {<<SubSeq(text, i, j)>> \o SplitFrom(text, j + 1) :
                       j \in {LineEnd(text, i)}} : TRUE

\* text.splitlines(keepends=True)
SplitLines(text) == SplitFrom(text, 1)

RECURSIVE LineStartsFrom(_, _, _)
LineStartsFrom(ls, i, acc) ==
  IF i > Len(ls) THEN <<>>
  ELSE <<acc + Len(ls[i])>> \o LineStartsFrom(ls, i + 1, acc + Len(ls[i]))

\* _line_starts: starts[lineno-1] is the absolute index of the line's start;
\* one extra entry (the text's length) follows the last line.
LineStarts(text) == <<0>> \o LineStartsFrom(SplitLines(text), 1, 0)

\* _abs_index (0-based list index lineno-1 is 1-based sequence index lineno).
AbsIndex(starts, lineno, col) == starts[lineno] + col

-----------------------------------------------------------------------------
(* Tokens of one physical line                                             *)

Tok(t, ci, cj, v) == [t |-> t, ci |-> ci, cj |-> cj, v |-> v]

\* First index >= i whose character is not in S.
ScanWhile(line, i, S) ==
  CHOOSE j \in i..(Len(line) + 1) :
    /\ \A k \in i..(j - 1) : line[k] \in S
    /\ j = Len(line) + 1 \/ line[j] \notin S

\* Index of the first '"' at or after i, 0 when there is none.
FindQuote(line, i) ==
  IF \A k \in i..Len(line) : line[k] # QUOTE THEN 0
  ELSE CHOOSE k \in i..Len(line) :
         line[k] = QUOTE /\ \A m \in i..(k - 1) : line[m] # QUOTE

\* Index of the first '"""' at or after i, 0 when there is none.
FindTriple(line, i) ==
  IF \E k \in i..(Len(line) - 2) :
       line[k] = QUOTE /\ line[k + 1] = QUOTE /\ line[k + 2] = QUOTE
  THEN CHOOSE k \in i..(Len(line) - 2) :
         /\ line[k] = QUOTE /\ line[k + 1] = QUOTE /\ line[k + 2] = QUOTE
         /\ \A m \in i..(k - 1) :
              ~(line[m] = QUOTE /\ line[m + 1] = QUOTE /\ line[m + 2] = QUOTE)
  ELSE 0

\* Index just after the string literal opening at i; 0 when it is not closed
\* on this line (string literals of the subset do not span lines).
StringEnd(line, i) ==
  IF i + 2 <= Len(line) /\ line[i + 1] = QUOTE /\ line[i + 2] = QUOTE
  THEN LET k == FindTriple(line, i + 3) IN IF k = 0 THEN 0 ELSE k + 3
  ELSE LET k == FindQuote(line, i + 1) IN IF k = 0 THEN 0 ELSE k + 1

RECURSIVE Tokenize(_, _)
\* Tokens from character index i on; ci/cj are 0-based character offsets
\* [ci, cj) of the token in the line. A comment ends the line's tokens.
\* (A value bound as "x \in {e}" is computed once, where it is bound.)
Tokenize(line, i) ==
  IF i > Len(line) THEN <<>>
  ELSE IF line[i] = " " THEN
    CHOOSE r \in {Tokenize(line, j) : j \in {ScanWhile(line, i, {" "})}} : TRUE
  ELSE IF line[i] = NL \/ line[i] = "#" THEN <<>>
  ELSE IF line[i] \in NameStart THEN
    CHOOSE r \in {<<Tok("name", i - 1, j - 1, SubSeq(line, i, j - 1))>>
                    \o Tokenize(line, j) : j \in {ScanWhile(line, i, NameChar)}} : TRUE
  ELSE IF line[i] \in Digit THEN
    CHOOSE r \in {<<Tok("num", i - 1, j - 1, SubSeq(line, i, j - 1))>>
                    \o Tokenize(line, j) : j \in {ScanWhile(line, i, Digit)}} : TRUE
  ELSE IF line[i] = QUOTE THEN
    CHOOSE r \in {IF j = 0 THEN <<Tok("error", i - 1, i, <<QUOTE>>)>>
                  ELSE <<Tok("str", i - 1, j - 1, SubSeq(line, i, j - 1))>>
                         \o Tokenize(line, j) : j \in {StringEnd(line, i)}} : TRUE
  ELSE IF line[i] = "-" /\ i < Len(line) /\ line[i + 1] = ">" THEN
    <<Tok("op", i - 1, i + 1, <<"-", ">">>)>> \o Tokenize(line, i + 2)
  ELSE IF line[i] \in OpChar THEN
    <<Tok("op", i - 1, i, <<line[i]>>)>> \o Tokenize(line, i + 1)
  ELSE <<Tok("error", i - 1, i, <<line[i]>>)>>

-----------------------------------------------------------------------------
(* Grammar of one logical line (the subset of Python the parser accepts)   *)

Keywords == {<<"d","e","f">>, <<"c","l","a","s","s">>, <<"p","a","s","s">>,
             <<"r","e","t","u","r","n">>, <<"a","s","y","n","c">>}
KwDef == <<"d","e","f">>
KwClass == <<"c","l","a","s","s">>
KwPass == <<"p","a","s","s">>
KwReturn == <<"r","e","t","u","r","n">>
KwAsync == <<"a","s","y","n","c">>

IsTok(toks, i, t) == i <= Len(toks) /\ toks[i].t = t
IsName(toks, i) == IsTok(toks, i, "name") /\ toks[i].v \notin Keywords
IsKw(toks, i, k) == IsTok(toks, i, "name") /\ toks[i].v = k
IsOp(toks, i, o) == IsTok(toks, i, "op") /\ toks[i].v = o

\* The parsers below return the index after what they accept, 0 on failure.

\* atom: NAME | NAME '(' ')' | NUMBER | STRING+
Atom(toks, i) ==
  IF IsName(toks, i) THEN
    (IF IsOp(toks, i + 1, <<"(">>) /\ IsOp(toks, i + 2, <<")">>) THEN i + 3 ELSE i + 1)
  ELSE IF IsTok(toks, i, "num") THEN i + 1
  ELSE IF IsTok(toks, i, "str") THEN
    CHOOSE j \in (i + 1)..(Len(toks) + 1) :
      /\ \A k \in i..(j - 1) : toks[k].t = "str"
      /\ ~IsTok(toks, j, "str")
  ELSE 0

RECURSIVE Expr(_, _)
\* expr: atom ('+' atom)*
Expr(toks, i) ==
  CHOOSE r \in {IF j = 0 THEN 0
                ELSE IF IsOp(toks, j, <<"+">>) THEN Expr(toks, j + 1)
                ELSE j : j \in {Atom(toks, i)}} : TRUE

\* simple statement: 'pass' | 'return' [expr] | NAME '=' expr | expr
SmallStmt(toks, i) ==
  IF IsKw(toks, i, KwPass) THEN i + 1
  ELSE IF IsKw(toks, i, KwReturn) THEN
    (IF i + 1 > Len(toks) THEN i + 1 ELSE Expr(toks, i + 1))
  ELSE IF IsName(toks, i) /\ IsOp(toks, i + 1, <<"=">>) THEN Expr(toks, i + 2)
  ELSE Expr(toks, i)

\* The ast class of the statement SmallStmt accepts at i.
StmtClass(toks, i) ==
  IF IsKw(toks, i, KwPass) THEN "Pass"
  ELSE IF IsKw(toks, i, KwReturn) THEN "Return"
  ELSE IF IsName(toks, i) /\ IsOp(toks, i + 1, <<"=">>) THEN "Assign"
  ELSE "Expr"

RECURSIVE Params(_, _)
\* parameters after '(': [NAME ['=' expr] (',' NAME ['=' expr])*] ')'
Params(toks, i) ==
  IF IsOp(toks, i, <<")">>) THEN i + 1
  ELSE IF IsName(toks, i) THEN
    CHOOSE r \in {IF j = 0 THEN 0
                  ELSE IF IsOp(toks, j, <<",">>) THEN Params(toks, j + 1)
                  ELSE IF IsOp(toks, j, <<")">>) THEN j + 1
                  ELSE 0 :
                  j \in {IF IsOp(toks, i + 1, <<"=">>)
                         THEN Expr(toks, i + 2) ELSE i + 1}} : TRUE
  ELSE 0

\* 'def' NAME '(' params ')' ['->' expr] ':' with 'def' at index i
FuncHeader(toks, i) ==
  IF ~(IsKw(toks, i, KwDef) /\ IsName(toks, i + 1) /\ IsOp(toks, i + 2, <<"(">>))
  THEN 0
  ELSE CHOOSE r \in
         {IF a # 0 /\ IsOp(toks, a, <<":">>) THEN a + 1 ELSE 0 :
            a \in {IF p # 0 /\ IsOp(toks, p, <<"-", ">">>)
                   THEN Expr(toks, p + 1) ELSE p : p \in {Params(toks, i + 3)}}} : TRUE

\* 'class' NAME ':'
ClassHeader(toks, i) ==
  IF IsKw(toks, i, KwClass) /\ IsName(toks, i + 1) /\ IsOp(toks, i + 2, <<":">>)
  THEN i + 3 ELSE 0

\* A statement node as the visitor reads it: ast class, whether its value is
\* a str constant, and its position (byte columns).
StmtNode(line, toks, i) ==
  [class |-> StmtClass(toks, i),
   value_str |-> \A k \in i..Len(toks) : toks[k].t = "str",
   col_offset |-> ByteCol(line, toks[i].ci),
   end_col_offset |-> ByteCol(line, toks[Len(toks)].cj)]

NoStmt == [class |-> "None", value_str |-> FALSE, col_offset |-> 0, end_col_offset |-> 0]

BadLine(indent) ==
  [kind |-> "error", indent |-> indent, stmt |-> NoStmt, inline |-> NoStmt]

\* A 'def' or 'class' line whose header ends before token index h (0: the
\* header is malformed); what follows the ':' must be one simple statement.
HeaderLine(line, toks, kind, indent, h) ==
  IF h = 0 THEN BadLine(indent)
  ELSE IF h > Len(toks) THEN
    [kind |-> kind, indent |-> indent, stmt |-> NoStmt, inline |-> NoStmt]
  ELSE IF SmallStmt(toks, h) = Len(toks) + 1 THEN
    [kind |-> kind, indent |-> indent, stmt |-> NoStmt,
     inline |-> StmtNode(line, toks, h)]
  ELSE BadLine(indent)

TokensInfo(line, toks, indent) ==
  IF Len(toks) = 0 THEN
    [kind |-> "blank", indent |-> indent, stmt |-> NoStmt, inline |-> NoStmt]
  ELSE IF \E k \in 1..Len(toks) : toks[k].t = "error" THEN BadLine(indent)
  ELSE IF IsKw(toks, 1, KwDef) THEN
    CHOOSE r \in {HeaderLine(line, toks, "def", indent, h) :
                    h \in {FuncHeader(toks, 1)}} : TRUE
  ELSE IF IsKw(toks, 1, KwAsync) THEN
    CHOOSE r \in {HeaderLine(line, toks, "def", indent, h) :
                    h \in {FuncHeader(toks, 2)}} : TRUE
  ELSE IF IsKw(toks, 1, KwClass) THEN
    CHOOSE r \in {HeaderLine(line, toks, "class", indent, h) :
                    h \in {ClassHeader(toks, 1)}} : TRUE
  ELSE IF SmallStmt(toks, 1) = Len(toks) + 1 THEN
    [kind |-> "stmt", indent |-> indent, stmt |-> StmtNode(line, toks, 1),
     inline |-> NoStmt]
  ELSE BadLine(indent)

\* What one physical line is: kind is "blank" (nothing but space/comment),
\* "error", "stmt", "def" or "class"; a header followed on its line by a
\* simple statement carries that statement as `inline`.
LineInfo(line) ==
  CHOOSE r \in {TokensInfo(line, toks, indent) :
                  toks \in {Tokenize(line, 1)},
                  indent \in {ScanWhile(line, 1, {" "}) - 1}} : TRUE

-----------------------------------------------------------------------------
(* Blocks: the module's statements and its function nodes                  *)

RECURSIVE CodeLines(_, _)
\* Line numbers (1-based) of the lines that hold code, in order.
CodeLines(infos, i) ==
  IF i > Len(infos) THEN <<>>
  ELSE (IF infos[i].kind = "blank" THEN <<>> ELSE <<i>>) \o CodeLines(infos, i + 1)

OpensBlock(info) == info.kind \in {"def", "class"} /\ info.inline = NoStmt

RECURSIVE PopTo(_, _)
\* The indentation stack after dedenting to d; <<>> when d matches no level.
PopTo(stack, d) ==
  IF stack = <<>> THEN <<>>
  ELSE IF stack[Len(stack)] = d THEN stack
  ELSE IF stack[Len(stack)] < d THEN <<>>
  ELSE PopTo(SubSeq(stack, 1, Len(stack) - 1), d)

RECURSIVE IndentError(_, _, _, _, _)
\* The tokenizer's INDENT/DEDENT rules over the code lines from the k-th on:
\* "" when the indentation is consistent, else the diagnostic.
IndentError(infos, code, k, stack, expect) ==
  IF k > Len(code) THEN (IF expect THEN "expected an indented block" ELSE "")
  ELSE CHOOSE r \in
    {IF expect THEN
       (IF d > stack[Len(stack)]
        THEN IndentError(infos, code, k + 1, next, opens)
        ELSE "expected an indented block")
     ELSE IF d > stack[Len(stack)] THEN "unexpected indent"
     ELSE IF next = <<>>
       THEN "unindent does not match any outer indentation level"
     ELSE IndentError(infos, code, k + 1, next, opens) :
       d \in {infos[code[k]].indent},
       opens \in {OpensBlock(infos[code[k]])},
       next \in {IF expect THEN Append(stack, infos[code[k]].indent)
                 ELSE PopTo(stack, infos[code[k]].indent)}} : TRUE

\* Index in `code` of the last line of the block the header code[k] opens.
BlockEnd(infos, code, k) ==
  CHOOSE j \in k..Len(code) :
    /\ \A m \in (k + 1)..j : infos[code[m]].indent > infos[code[k]].indent
    /\ j = Len(code) \/ infos[code[j + 1]].indent <= infos[code[k]].indent

\* The statement that starts on code line k, as an ast node with positions.
\* A compound statement ends where the last statement of its block ends.
StmtAt(infos, code, k) ==
  LET info == infos[code[k]]
      j == BlockEnd(infos, code, k)
      tail == infos[code[j]]
      tailStmt == IF tail.kind = "stmt" THEN tail.stmt ELSE tail.inline
  IN  IF info.kind = "stmt" THEN
        [class |-> info.stmt.class, value_str |-> info.stmt.value_str,
         lineno |-> code[k], col_offset |-> info.stmt.col_offset,
         end_lineno |-> code[k], end_col_offset |-> info.stmt.end_col_offset]
      ELSE
        [class |-> IF info.kind = "def" THEN "FunctionDef" ELSE "ClassDef",
         value_str |-> FALSE,
         lineno |-> code[k], col_offset |-> info.indent,
         end_lineno |-> IF OpensBlock(info) THEN code[j] ELSE code[k],
         end_col_offset |-> IF OpensBlock(info) THEN tailStmt.end_col_offset
                            ELSE info.inline.end_col_offset]

\* The statement a header carries on its own line.
InlineAt(infos, code, k) ==
  LET st == infos[code[k]].inline
  IN  [class |-> st.class, value_str |-> st.value_str,
       lineno |-> code[k], col_offset |-> st.col_offset,
       end_lineno |-> code[k], end_col_offset |-> st.end_col_offset]

\* Whether code line k lies in the block of a function header.
InFunction(infos, code, k) ==
  \E j \in 1..(k - 1) :
    /\ infos[code[j]].kind = "def"
    /\ OpensBlock(infos[code[j]])
    /\ k <= BlockEnd(infos, code, j)

\* A FunctionDef / AsyncFunctionDef node: body[0], body[-1], and whether the
\* definition is nested in another function's body.
FuncNode(infos, code, k) ==
  LET info == infos[code[k]]
      j == BlockEnd(infos, code, k)
      \* the last statement of the block at the block's own indentation
      m == CHOOSE m \in (k + 1)..j :
             /\ infos[code[m]].indent = infos[code[k + 1]].indent
             /\ \A n \in (m + 1)..j :
                  infos[code[n]].indent > infos[code[k + 1]].indent
  IN  [lineno |-> code[k],
       col_offset |-> info.indent,
       first |-> IF OpensBlock(info) THEN StmtAt(infos, code, k + 1)
                 ELSE InlineAt(infos, code, k),
       last |-> IF OpensBlock(info) THEN StmtAt(infos, code, m)
                ELSE InlineAt(infos, code, k),
       nested |-> InFunction(infos, code, k)]

RECURSIVE FuncNodes(_, _, _)
\* The function nodes in document order: the order NodeVisitor reaches them
\* (visit_FunctionDef handles a node, then generic_visit descends).
FuncNodes(infos, code, k) ==
  IF k > Len(code) THEN <<>>
  ELSE (IF infos[code[k]].kind = "def" THEN <<FuncNode(infos, code, k)>> ELSE <<>>)
       \o FuncNodes(infos, code, k + 1)

RECURSIVE LineInfos(_, _)
LineInfos(ls, i) ==
  IF i > Len(ls) THEN <<>> ELSE <<LineInfo(ls[i])>> \o LineInfos(ls, i + 1)

ParseLines(infos, code) ==
  IF \E i \in 1..Len(infos) : infos[i].kind = "error"
    THEN [ok |-> FALSE, msg |-> "invalid syntax", funcs |-> <<>>]
  ELSE CHOOSE r \in
    {IF ind # ""
       THEN [ok |-> FALSE, msg |-> ind, funcs |-> <<>>]
       ELSE [ok |-> TRUE, msg |-> "", funcs |-> FuncNodes(infos, code, 1)] :
       ind \in {IndentError(infos, code, 1, <<0>>, FALSE)}} : TRUE

\* ast.parse(source): the function nodes of the tree, or a SyntaxError.
Parse(text) ==
  CHOOSE r \in
    {CHOOSE q \in {ParseLines(infos, code) : code \in {CodeLines(infos, 1)}} : TRUE :
       infos \in {LineInfos(SplitLines(text), 1)}} : TRUE

-----------------------------------------------------------------------------
(* The transform's helpers                                                 *)

\* _is_docstring_stmt: an ast.Expr whose value is a str constant.
IsDocstringStmt(stmt) == stmt.class = "Expr" /\ stmt.value_str

RECURSIVE Concat(_)
Concat(seqs) == IF seqs = <<>> THEN <<>> ELSE Head(seqs) \o Concat(Tail(seqs))

\* ast.get_source_segment(source, node): the node's text, cut from the
\* UTF-8 encoded lines by byte column. Nodes of a parsed tree always carry
\* their positions, so the segment is never None.
GetSourceSegment(text, node) ==
  LET ls == SplitLines(text)
      whole(l) == ByteSlice(l, 0, ByteCol(l, Len(l)))
  IN  IF node.end_lineno = node.lineno
      THEN ByteSlice(ls[node.lineno], node.col_offset, node.end_col_offset)
      ELSE ByteSlice(ls[node.lineno], node.col_offset,
                     ByteCol(ls[node.lineno], Len(ls[node.lineno])))
           \o Concat([i \in 1..(node.end_lineno - node.lineno - 1) |->
                        whole(ls[node.lineno + i])])
           \o ByteSlice(ls[node.end_lineno], 0, node.end_col_offset)

PassText == <<"p", "a", "s", "s">>

\* The text _handle puts in place of a body that has no docstring:
\* the first statement's line up to its column, then 'pass'.
PlaceholderFor(ls, first) == Take(ls[first.lineno], first.col_offset) \o PassText

\* Visitor._handle: the (start, end, replacement) queued for a function.
Handle(text, starts, ls, node) ==
  [s |-> AbsIndex(starts, node.first.lineno, node.first.col_offset),
   e |-> AbsIndex(starts, node.last.end_lineno, node.last.end_col_offset),
   repl |-> IF IsDocstringStmt(node.first)
            THEN GetSourceSegment(text, node.first)
            ELSE PlaceholderFor(ls, node.first)]

\* A sort by start alone, without the longer-range-first tie-break.
DedupeKeyStartOnly(a, b) == a.s < b.s

\* key=lambda x: (x[0], -x[1])
DedupeKeyBefore(a, b) == a.s < b.s \/ (a.s = b.s /\ a.e > b.e)

\* A front-to-back order of the splices.
SpliceKeyAscending(a, b) == a.s < b.s

\* key=lambda x: x[0], reverse=True
SpliceKeyBefore(a, b) == a.s > b.s

KeyBefore(key, a, b) ==
  IF key = "dedupe" THEN DedupeKeyBefore(a, b) ELSE SpliceKeyBefore(a, b)

RECURSIVE InsertBy(_, _, _)
\* x put into the sorted sequence after every element it does not precede.
InsertBy(sorted, x, key) ==
  IF sorted = <<>> THEN <<x>>
  ELSE IF KeyBefore(key, x, Head(sorted)) THEN <<x>> \o sorted
  ELSE <<Head(sorted)>> \o InsertBy(Tail(sorted), x, key)

RECURSIVE SortBy(_, _)
\* sorted(): a stable sort under the given key.
SortBy(seq, key) ==
  IF seq = <<>> THEN <<>>
  ELSE CHOOSE r \in {InsertBy(front, seq[Len(seq)], key) :
                       front \in {SortBy(SubSeq(seq, 1, Len(seq) - 1), key)}} : TRUE

\* A scan that keeps every range.
DedupeKeepsAll(r, cur_end) == TRUE

\* The scan of _dedupe_overlapping_ranges keeps a range that starts at or
\* after the end of the last kept one.
DedupeKeeps(r, cur_end) == r.s >= cur_end

\* new_src[:s] + repl + new_src[e:]
SpliceOne(text, r) == Take(text, r.s) \o r.repl \o Drop(text, r.e)

\* A return of the spliced text as it is.
EnsureTrailingNewlineNever(orig, text) == text

\* A trailing newline is put back when the original had one.
EnsureTrailingNewline(orig, text) ==
  IF EndsWith(orig, NL) /\ ~EndsWith(text, NL) THEN Append(text, NL) ELSE text

None == <<"None">>
SyntaxErrorOf(diag) ==
  [kind |-> "SyntaxError", msg |-> <<"Failed to parse Python source: ", diag>>]

-----------------------------------------------------------------------------
(* Actions                                                                 *)

\* A parse failure that is swallowed: the input is returned as it is.
ParseFailReturnsSource ==
  /\ pc = "start"
  /\ ~Parse(source).ok
  /\ result' = source
  /\ pc' = "done"
  /\ UNCHANGED <<source, run, tree, line_starts, lines, visit_i, replacements,
                 ranges_sorted, scan_i, kept, current_end, todo, new_src,
                 error, prev_out>>

\* ast.parse raises: the SyntaxError is re-raised, nothing else has run.
ParseFail ==
  /\ pc = "start"
  /\ \E p \in {Parse(source)} :
       /\ ~p.ok
       /\ error' = SyntaxErrorOf(p.msg)
  /\ pc' = "error"
  /\ UNCHANGED <<source, run, tree, line_starts, lines, visit_i, replacements,
                 ranges_sorted, scan_i, kept, current_end, todo, new_src,
                 result, prev_out>>

ParseOk ==
  /\ pc = "start"
  /\ \E p \in {Parse(source)} :
       /\ p.ok
       /\ tree' = p.funcs
  /\ line_starts' = LineStarts(source)
  /\ lines' = SplitLines(source)
  /\ replacements' = <<>>
  /\ visit_i' = 1
  /\ pc' = "visit"
  /\ UNCHANGED <<source, run, ranges_sorted, scan_i, kept, current_end, todo,
                 new_src, result, error, prev_out>>

\* Visitor reaches the next function node and _handle queues its range.
VisitNode ==
  /\ pc = "visit"
  /\ visit_i <= Len(tree)
  /\ replacements' =
       Append(replacements, Handle(source, line_starts, lines, tree[visit_i]))
  /\ visit_i' = visit_i + 1
  /\ UNCHANGED <<source, pc, run, tree, line_starts, lines, ranges_sorted,
                 scan_i, kept, current_end, todo, new_src, result, error,
                 prev_out>>

\* if not replacements: return source
ReturnUnchanged ==
  /\ pc = "visit"
  /\ visit_i > Len(tree)
  /\ replacements = <<>>
  /\ result' = source
  /\ pc' = "done"
  /\ UNCHANGED <<source, run, tree, line_starts, lines, visit_i, replacements,
                 ranges_sorted, scan_i, kept, current_end, todo, new_src,
                 error, prev_out>>

\* _dedupe_overlapping_ranges: the sort and the loop's initial state.
DedupeSort ==
  /\ pc = "visit"
  /\ visit_i > Len(tree)
  /\ replacements # <<>>
  /\ ranges_sorted' = SortBy(replacements, "dedupe")
  /\ kept' = <<>>
  /\ current_end' = -1
  /\ scan_i' = 1
  /\ pc' = "dedupe"
  /\ UNCHANGED <<source, run, tree, line_starts, lines, visit_i, replacements,
                 todo, new_src, result, error, prev_out>>

\* One iteration of the loop over ranges_sorted.
DedupeScan ==
  /\ pc = "dedupe"
  /\ scan_i <= Len(ranges_sorted)
  /\ IF DedupeKeeps(ranges_sorted[scan_i], current_end)
     THEN /\ kept' = Append(kept, ranges_sorted[scan_i])
          /\ current_end' = ranges_sorted[scan_i].e
     ELSE UNCHANGED <<kept, current_end>>
  /\ scan_i' = scan_i + 1
  /\ UNCHANGED <<source, pc, run, tree, line_starts, lines, visit_i,
                 replacements, ranges_sorted, todo, new_src, result, error,
                 prev_out>>

\* return kept; the caller rebinds replacements and sets up the splice loop.
DedupeReturn ==
  /\ pc = "dedupe"
  /\ scan_i > Len(ranges_sorted)
  /\ replacements' = kept
  /\ todo' = SortBy(kept, "splice")
  /\ new_src' = source
  /\ pc' = "splice"
  /\ UNCHANGED <<source, run, tree, line_starts, lines, visit_i, ranges_sorted,
                 scan_i, kept, current_end, result, error, prev_out>>

\* One iteration of the replacement loop.
SpliceStep ==
  /\ pc = "splice"
  /\ todo # <<>>
  /\ new_src' = SpliceOne(new_src, Head(todo))
  /\ todo' = Tail(todo)
  /\ UNCHANGED <<source, pc, run, tree, line_starts, lines, visit_i,
                 replacements, ranges_sorted, scan_i, kept, current_end,
                 result, error, prev_out>>

\* The loop is over: trailing newline, return new_src.
Finish ==
  /\ pc = "splice"
  /\ todo = <<>>
  /\ result' = EnsureTrailingNewline(source, new_src)
  /\ pc' = "done"
  /\ UNCHANGED <<source, run, tree, line_starts, lines, visit_i, replacements,
                 ranges_sorted, scan_i, kept, current_end, todo, new_src,
                 error, prev_out>>

-----------------------------------------------------------------------------
(* Inputs: programs put together from these fragments                      *)

\* '# top\n'
TopComment ==
  <<"#"," ","t","o","p",NL>>

\* '\n'
BlankLine ==
  <<NL>>

\* 'y = 2\n'
TopStmt ==
  <<"y"," ","="," ","2",NL>>

\* 'def g():\n    x = 1\n'
FnAssign ==
  <<"d","e","f"," ","g","(",")",":",NL," "," "," "," ","x"," ","="," ","1",
    NL>>

\* 'def g(): x = 1\n'
FnInline ==
  <<"d","e","f"," ","g","(",")",":"," ","x"," ","="," ","1",NL>>

\* 'def f():\n    """doc"""\n    x = 1\n    return x\n'
FnDoc ==
  <<"d","e","f"," ","f","(",")",":",NL," "," "," "," ",QUOTE,QUOTE,QUOTE,
    "d","o","c",QUOTE,QUOTE,QUOTE,NL," "," "," "," ","x"," ","="," ","1",NL,
    " "," "," "," ","r","e","t","u","r","n"," ","x",NL>>

\* 'def h(a, b=2) -> int:\n    # comment\n    return a+b\n'
FnComment ==
  <<"d","e","f"," ","h","(","a",","," ","b","=","2",")"," ","-",">"," ","i",
    "n","t",":",NL," "," "," "," ","#"," ","c","o","m","m","e","n","t",NL,
    " "," "," "," ","r","e","t","u","r","n"," ","a","+","b",NL>>

\* 'def outer():\n    def inner():\n        return 2\n    return inner()\n'
FnNested ==
  <<"d","e","f"," ","o","u","t","e","r","(",")",":",NL," "," "," "," ","d",
    "e","f"," ","i","n","n","e","r","(",")",":",NL," "," "," "," "," "," ",
    " "," ","r","e","t","u","r","n"," ","2",NL," "," "," "," ","r","e","t",
    "u","r","n"," ","i","n","n","e","r","(",")",NL>>

\* 'class C:\n    def m(self):\n        return 1\n'
ClsMethod ==
  <<"c","l","a","s","s"," ","C",":",NL," "," "," "," ","d","e","f"," ","m",
    "(","s","e","l","f",")",":",NL," "," "," "," "," "," "," "," ","r","e",
    "t","u","r","n"," ","1",NL>>

\* 'def i(:\n    pass\n'
FnBroken ==
  <<"d","e","f"," ","i","(",":",NL," "," "," "," ","p","a","s","s",NL>>

\* 'async def a():\n    "\xe9"\n'
FnDocUni ==
  <<"a","s","y","n","c"," ","d","e","f"," ","a","(",")",":",NL," "," "," ",
    " ",QUOTE,EAcute,QUOTE,NL>>

\* 'def u():\n    s = "\xe9"  # z\n'
FnUniTail ==
  <<"d","e","f"," ","u","(",")",":",NL," "," "," "," ","s"," ","="," ",
    QUOTE,EAcute,QUOTE," "," ","#"," ","z",NL>>

\* 'def o():\n    class K:\n        def m(self): pass\n'
FnClassIn ==
  <<"d","e","f"," ","o","(",")",":",NL," "," "," "," ","c","l","a","s","s",
    " ","K",":",NL," "," "," "," "," "," "," "," ","d","e","f"," ","m","(",
    "s","e","l","f",")",":"," ","p","a","s","s",NL>>

\* 'def p():\n    pass\n'
FnPass ==
  <<"d","e","f"," ","p","(",")",":",NL," "," "," "," ","p","a","s","s",NL>>

\* 'def d(): "doc"\n'
FnInlineDoc ==
  <<"d","e","f"," ","d","(",")",":"," ",QUOTE,"d","o","c",QUOTE,NL>>

\* 'def e(x="\xe9"): "doc"\n'
FnUniParam ==
  <<"d","e","f"," ","e","(","x","=",QUOTE,EAcute,QUOTE,")",":"," ",QUOTE,
    "d","o","c",QUOTE,NL>>

\* 'def k():\n    return 1\n    # after\n'
FnTrail ==
  <<"d","e","f"," ","k","(",")",":",NL," "," "," "," ","r","e","t","u","r",
    "n"," ","1",NL," "," "," "," ","#"," ","a","f","t","e","r",NL>>

Catalog ==
  {TopComment, BlankLine, TopStmt, FnAssign, FnInline,
   FnDoc, FnComment, FnNested, ClsMethod, FnBroken,
   FnDocUni, FnUniTail, FnClassIn, FnPass, FnInlineDoc,
   FnUniParam, FnTrail}

\* How many fragments a program holds at most, and how many times in a row
\* the transform is applied (each time to its previous output).
MaxItems == 2
MaxRuns == 2

StripFinalNewline(text) ==
  IF EndsWith(text, NL) THEN SubSeq(text, 1, Len(text) - 1) ELSE text

Programs ==
  LET whole == {Concat(p) : p \in UNION {[1..n -> Catalog] : n \in 0..MaxItems}}
  IN  whole \cup {StripFinalNewline(t) : t \in whole}

\* The state on entry to transform_source_preserve_outside_comments(text).
Entry(text, n, prev) ==
  /\ source = text
  /\ pc = "start"
  /\ run = n
  /\ tree = <<>>
  /\ line_starts = <<>>
  /\ lines = <<>>
  /\ visit_i = 1
  /\ replacements = <<>>
  /\ ranges_sorted = <<>>
  /\ scan_i = 1
  /\ kept = <<>>
  /\ current_end = -1
  /\ todo = <<>>
  /\ new_src = None
  /\ result = None
  /\ error = None
  /\ prev_out = prev

Init == \E text \in Programs : Entry(text, 1, None)

\* The caller feeds the returned text to the transform again.
Reapply ==
  /\ pc = "done"
  /\ run < MaxRuns
  /\ source' = result
  /\ prev_out' = result
  /\ run' = run + 1
  /\ pc' = "start"
  /\ tree' = <<>>
  /\ line_starts' = <<>>
  /\ lines' = <<>>
  /\ visit_i' = 1
  /\ replacements' = <<>>
  /\ ranges_sorted' = <<>>
  /\ scan_i' = 1
  /\ kept' = <<>>
  /\ current_end' = -1
  /\ todo' = <<>>
  /\ new_src' = None
  /\ result' = None
  /\ error' = None

Next ==
  \/ ParseFail
  \/ ParseOk
  \/ VisitNode
  \/ ReturnUnchanged
  \/ DedupeSort
  \/ DedupeScan
  \/ DedupeReturn
  \/ SpliceStep
  \/ Finish
  \/ Reapply

Spec == Init /\ [][Next]_vars

-----------------------------------------------------------------------------
(* Positions in the source text, in characters                             *)

\* The character index in `line` at which byte column b falls.
CharOfByte(line, b) == CHOOSE n \in 0..Len(line) : ByteCol(line, n) = b

\* Character offset in `source` of (lineno, byte column).
OffsetOf(lineno, col) == line_starts[lineno] + CharOfByte(lines[lineno], col)

DefStart(f) == OffsetOf(f.lineno, f.col_offset)
BodyStart(f) == OffsetOf(f.first.lineno, f.first.col_offset)
BodyEnd(f) == OffsetOf(f.last.end_lineno, f.last.end_col_offset)
FirstStmtEnd(f) == OffsetOf(f.first.end_lineno, f.first.end_col_offset)

RECURSIVE NotNested(_, _)
NotNested(nodes, i) ==
  IF i > Len(nodes) THEN <<>>
  ELSE (IF nodes[i].nested THEN <<>> ELSE <<nodes[i]>>) \o NotNested(nodes, i + 1)

\* The functions that are not nested in another function, in document order.
Outermost == NotNested(tree, 1)

\* A function whose first body statement is a string-literal expression.
StringLed(f) == f.first.class = "Expr" /\ f.first.value_str

Contains(text, sub) ==
  \E a \in 0..(Len(text) - Len(sub)) : SubSeq(text, a + 1, a + Len(sub)) = sub

\* The source text between the body of the k-th outermost function and the
\* body of the next one (k = 0: from the start; k = last: to the end).
GapText(k) ==
  Slice(source,
        IF k = 0 THEN 0 ELSE BodyEnd(Outermost[k]),
        IF k = Len(Outermost) THEN Len(source) ELSE BodyStart(Outermost[k + 1]))

\* In the result, `body` stands between the unchanged text that preceded the
\* k-th outermost function's body and the unchanged text that followed it.
BodyStandsAs(k, body) ==
  \E a \in 0..Len(result) :
    /\ a >= Len(GapText(k - 1))
    /\ Slice(result, a - Len(GapText(k - 1)), a) = GapText(k - 1)
    /\ k = 1 => a = Len(GapText(0))
    /\ Slice(result, a, a + Len(body)) = body
    /\ Slice(result, a + Len(body), a + Len(body) + Len(GapText(k))) = GapText(k)
    /\ k = Len(Outermost) => a + Len(body) + Len(GapText(k)) = Len(result)

-----------------------------------------------------------------------------
(* C1 *)

\* C1: placeholder insertion. When the transform has returned, every function
\* that is not nested in another function and whose first body statement is
\* not a string-literal expression has as its body exactly 'pass', standing
\* where the first body statement stood (directly after the unchanged text
\* up to that statement, indentation included) and followed by the unchanged
\* text after the last body statement, with nothing added.
C1_PlaceholderInserted ==
  pc = "done" =>
    \A k \in 1..Len(Outermost) :
      ~StringLed(Outermost[k]) => BodyStandsAs(k, PassText)

-----------------------------------------------------------------------------
(* C2 *)

\* C2: docstring fidelity. When the transform has returned, every function
\* that is not nested in another function and whose first body statement is
\* a string-literal expression has as its body exactly the source text of
\* that statement, at its original place, and the rest of the body up to the
\* end of the last body statement is gone.
C2_DocstringKept ==
  pc = "done" =>
    \A k \in 1..Len(Outermost) :
      StringLed(Outermost[k]) =>
        BodyStandsAs(k, Slice(source, BodyStart(Outermost[k]),
                              FirstStmtEnd(Outermost[k])))

-----------------------------------------------------------------------------
(* C3 *)

\* C3: idempotence. Applied to its own output, the transform does not fail
\* and returns that output unchanged.
C3_Idempotent ==
  run > 1 => /\ pc # "error"
             /\ pc = "done" => result = prev_out

-----------------------------------------------------------------------------
(* C4 *)

RECURSIVE CommentFrom(_, _)
\* Index of the '#' that opens the line's comment (0: the line has none).
CommentFrom(line, i) ==
  IF i > Len(line) THEN 0
  ELSE IF line[i] = "#" THEN i
  ELSE IF line[i] = QUOTE THEN
    (IF StringEnd(line, i) = 0 THEN 0 ELSE CommentFrom(line, StringEnd(line, i)))
  ELSE CommentFrom(line, i + 1)

CommentText(line) ==
  SubSeq(line, CommentFrom(line, 1),
         IF EndsWith(line, NL) THEN Len(line) - 1 ELSE Len(line))

\* Line n lies in the body block of function f: after the header (or on it,
\* for a body written on the header's line), before the block's dedent; a
\* comment-only line counts when it is indented deeper than the header.
InBodyBlock(f, n) ==
  \/ n = f.lineno /\ f.first.lineno = f.lineno
  \/ /\ n > f.lineno
     /\ \A k \in (f.lineno + 1)..n :
          LineInfo(lines[k]).kind # "blank" => LineInfo(lines[k]).indent > f.col_offset
     /\ LineInfo(lines[n]).kind = "blank" => CommentFrom(lines[n], 1) - 1 > f.col_offset

\* C4: comments inside a function are removed. When the transform has
\* returned, no comment of a line in a function's body block (before the
\* first statement, between statements, trailing on the last statement's
\* line, or after the last statement) appears in the result.
C4_CommentsRemoved ==
  pc = "done" =>
    \A n \in 1..Len(lines) :
      (/\ CommentFrom(lines[n], 1) # 0
       /\ \E i \in 1..Len(tree) : InBodyBlock(tree[i], n))
      => ~Contains(result, CommentText(lines[n]))

-----------------------------------------------------------------------------
(* C5 *)

RECURSIVE GapsInOrder(_, _)
\* From character offset `from` of the result on, the gaps k, k+1, ... occur
\* in this order, the last one as the result's end.
GapsInOrder(k, from) ==
  IF k = Len(Outermost)
  THEN /\ Len(result) - Len(GapText(k)) >= from
       /\ Drop(result, Len(result) - Len(GapText(k))) = GapText(k)
  ELSE \E a \in from..Len(result) :
         /\ Slice(result, a, a + Len(GapText(k))) = GapText(k)
         /\ GapsInOrder(k + 1, a + Len(GapText(k)))

\* C5: preservation outside bodies. When the transform has returned, the
\* text outside the body spans [start of first body statement, end of last
\* body statement) of the outermost functions is in the result unchanged and
\* in order: the result starts with the text before the first body, ends
\* with the text after the last one, and holds the texts between bodies in
\* between; an input without functions is returned unchanged.
C5_OutsidePreserved ==
  pc = "done" =>
    /\ Take(result, Len(GapText(0))) = GapText(0)
    /\ GapsInOrder(0, 0)
    /\ Len(tree) = 0 => result = source

-----------------------------------------------------------------------------
(* C6 *)

\* The range _handle computes for a function, as the code indexes the text.
CodeStart(f) == AbsIndex(line_starts, f.first.lineno, f.first.col_offset)
CodeEnd(f) == AbsIndex(line_starts, f.last.end_lineno, f.last.end_col_offset)

\* The header line of a function, without its line end.
DefLine(f) ==
  SubSeq(lines[f.lineno], 1,
         IF EndsWith(lines[f.lineno], NL) THEN Len(lines[f.lineno]) - 1
         ELSE Len(lines[f.lineno]))

-----------------------------------------------------------------------------
(* C7 *)

\* C7: parse failure. From the entry of the transform with an input that
\* does not parse, the only step is to the error state: the error is a
\* SyntaxError that carries the parser's diagnostic, no text is returned, no
\* range is collected and no replacement applied. In the error state, always,
\* the input is one that does not parse and nothing was returned, collected
\* or replaced.
C7_ParseFailure ==
  /\ [][pc = "start" =>
          \E p \in {Parse(source)} :
            \/ p.ok
            \/ /\ pc' = "error"
               /\ error'.kind = "SyntaxError"
               /\ error'.msg[2] = p.msg
               /\ result' = None
               /\ new_src' = None
               /\ replacements' = <<>>
               /\ tree' = <<>>
               /\ source' = source]_vars
  /\ [](pc = "error" =>
          /\ ~Parse(source).ok
          /\ error.kind = "SyntaxError"
          /\ error.msg[1] = "Failed to parse Python source: "
          /\ error.msg[2] = Parse(source).msg
          /\ result = None
          /\ new_src = None
          /\ replacements = <<>>
          /\ tree = <<>>)

\* An invalid input has been rejected.
C7_Witness == pc = "error" /\ run = 1 /\ error.msg[2] = "invalid syntax"

-----------------------------------------------------------------------------
(* C8 *)

-----------------------------------------------------------------------------
(* C10 *)

RECURSIVE ReplaceFrom(_, _, _, _)
\* The text from offset `from` on, with the spans k, k+1, ... (ascending,
\* non-overlapping) replaced all at once.
ReplaceFrom(text, spans, k, from) ==
  IF k > Len(spans) THEN Drop(text, from)
  ELSE Slice(text, from, spans[k].s) \o spans[k].repl
       \o ReplaceFrom(text, spans, k + 1, spans[k].e)

\* The kept spans already applied: the last ones in ascending order.
Applied == SubSeq(replacements, Len(todo) + 1, Len(replacements))

\* C10: back-to-front splicing. In the replacement loop, the working text up
\* to the end of every span not yet applied is the original text up to
\* there, and the working text is the original with the spans applied so far
\* replaced simultaneously; when the loop ends it is the original with all
\* kept spans replaced simultaneously.
C10_SpliceKeepsOffsets ==
  pc = "splice" =>
    /\ \A i \in 1..Len(todo) : Take(new_src, todo[i].e) = Take(source, todo[i].e)
    /\ \A i \in 1..Len(todo) : todo[i] = replacements[Len(todo) + 1 - i]
    /\ new_src = Slice(source, 0, IF Applied = <<>> THEN Len(source) ELSE Applied[1].s)
                 \o ReplaceFrom(source, Applied, 1,
                                IF Applied = <<>> THEN Len(source) ELSE Applied[1].s)

\* A replacement that changed the text's length has been applied while
\* another span is still to be applied.
C10_Witness ==
  /\ pc = "splice"
  /\ todo # <<>>
  /\ Applied # <<>>
  /\ Len(Applied[1].repl) # Applied[1].e - Applied[1].s

-----------------------------------------------------------------------------
(* C9: _dedupe_overlapping_ranges on its own                               *)

\* Offsets run over 0..MaxOff; a list holds at most MaxRanges ranges.
MaxOff == 3
MaxRanges == 3

Covers(a, b) == a.s <= b.s /\ b.e <= a.e
Overlap(a, b) == a.s < b.e /\ b.s < a.e
Disjoint(a, b) == a.e <= b.s \/ b.e <= a.s

\* Lists of ranges (start <= end; the replacement text tells them apart) in
\* which any two ranges are disjoint or one contains the other.
RangeLists ==
  {rs \in UNION {[1..n -> [s : 0..MaxOff, e : 0..MaxOff]] : n \in 1..MaxRanges} :
     /\ \A i \in 1..Len(rs) : rs[i].s <= rs[i].e
     /\ \A i, j \in 1..Len(rs) :
          Disjoint(rs[i], rs[j]) \/ Covers(rs[i], rs[j]) \/ Covers(rs[j], rs[i])}

Tagged(rs) == [i \in 1..Len(rs) |-> [s |-> rs[i].s, e |-> rs[i].e, repl |-> <<"r", i>>]]

\* The call _dedupe_overlapping_ranges(ranges) with a list of that kind.
InitDedupe ==
  \E rs \in RangeLists :
    /\ replacements = Tagged(rs)
    /\ source = <<>>
    /\ pc = "visit"
    /\ run = 1
    /\ tree = <<>>
    /\ line_starts = <<0>>
    /\ lines = <<>>
    /\ visit_i = 1
    /\ ranges_sorted = <<>>
    /\ scan_i = 1
    /\ kept = <<>>
    /\ current_end = -1
    /\ todo = <<>>
    /\ new_src = None
    /\ result = None
    /\ error = None
    /\ prev_out = None

NextDedupe ==
  \/ DedupeSort
  \/ DedupeScan
  \/ DedupeReturn

SpecDedupe == InitDedupe /\ [][NextDedupe]_vars

\* C9: deduplication. When _dedupe_overlapping_ranges has returned, no two
\* returned ranges overlap, the returned list is in ascending order of start,
\* every input range that no other input range contains is returned, and
\* every input range that is not returned lies inside a returned one.
\* (ranges_sorted holds the input ranges, replacements the returned list.)
C9_DedupeInvariant ==
  pc = "splice" =>
    /\ \A i, j \in 1..Len(replacements) :
         i < j => /\ ~Overlap(replacements[i], replacements[j])
                  /\ replacements[i].s <= replacements[j].s
    /\ \A i \in 1..Len(ranges_sorted) :
         (\A j \in 1..Len(ranges_sorted) :
            j # i => ~Covers(ranges_sorted[j], ranges_sorted[i]))
         => \E k \in 1..Len(replacements) : replacements[k] = ranges_sorted[i]
    /\ \A i \in 1..Len(ranges_sorted) :
         (\A k \in 1..Len(replacements) : replacements[k] # ranges_sorted[i])
         => \E k \in 1..Len(replacements) : Covers(replacements[k], ranges_sorted[i])
    /\ \A k \in 1..Len(replacements) :
         \E i \in 1..Len(ranges_sorted) : replacements[k] = ranges_sorted[i]

\* A list of nested and of disjoint ranges has been deduplicated: some
\* ranges were dropped and more than one was kept.
C9_Witness ==
  /\ pc = "splice"
  /\ Len(replacements) >= 2
  /\ Len(replacements) < Len(ranges_sorted)

=============================================================================
